---- MODULE Spec2Model ----
(***************************************************************************)
(* gochess: the bubbletea front-end (model.Update, updateHistoryViewport,  *)
(* renderBoard) over the notnil/chess rules engine.                        *)
(*                                                                         *)
(* A Go string is a sequence of one-character strings, so that appending,  *)
(* truncating, formatting and splitting are computed, not assumed.         *)
(***************************************************************************)
EXTENDS Integers, Sequences, FiniteSets, TLC

VARIABLES game, error, width, height, textInput, viewport, history,
          running, accepted, last, board, frame, stdin, pc, out

vars == <<game, error, width, height, textInput, viewport, history,
          running, accepted, last, board, frame, stdin, pc, out>>

(***************************************************************************)
(* Bounds of the model.                                                    *)
(***************************************************************************)
\* longest game the rules engine is driven through
MaxMoves == 3
\* most runes one key message carries (a paste delivers several at once)
MaxRunes == 2
\* longest history handed to updateHistoryViewport on its own
MaxHist == 4
\* most lines standard input holds for the stdin variant
MaxLines == 3

\* runes the keyboard can deliver
Chars == {"e", "4"}
\* terminal sizes a resize can report
Widths == {80}
Heights == {-1, 12, 14}

RECURSIVE SeqsUpTo(_, _)
SeqsUpTo(S, n) ==
    IF n = 0 THEN {<<>>}
    ELSE LET shorter == SeqsUpTo(S, n - 1)
         IN  shorter \cup {Append(s, c) : s \in shorter, c \in S}

Max(a, b) == IF a > b THEN a ELSE b
Min(a, b) == IF a < b THEN a ELSE b

(***************************************************************************)
(* The rules engine (notnil/chess), as far as the front-end sees it.       *)
(* A position is the side to move, the number of half-moves played and     *)
(* its status (NoMethod, Checkmate or Stalemate); which strings decode to  *)
(* a legal move depends on the position only: "e4" and "4e" stand for the  *)
(* strings the engine accepts from White and from Black.                   *)
(***************************************************************************)
White == "White"
Black == "Black"
NoOutcome == "*"
WhiteWon == "1-0"
BlackWon == "0-1"
Draw == "1/2-1/2"

\* chess.NewGame()
NewGame ==
    [pos |-> [turn |-> White, moveCount |-> 0, status |-> "NoMethod"],
     outcome |-> NoOutcome, method |-> "NoMethod"]

\* Position.ValidMoves, as the strings AlgebraicNotation decodes to them:
\* a mated or stalemated position has none
ValidMoves(pos) ==
    IF pos.status # "NoMethod" THEN {}
    ELSE IF pos.turn = White THEN {<<"e", "4">>} ELSE {<<"4", "e">>}

\* the error Game.MoveStr returns for a string that decodes to no legal move
ErrDecode == <<"chess: could not decode algebraic notation">>
Nil == <<>>

\* Game.MoveStr's result: nil when the string is a legal move of the position
\* (neither Decode nor Move looks at the game's outcome)
MoveStrErr(g, s) == IF s \in ValidMoves(g.pos) THEN Nil ELSE ErrDecode

\* Position.Update: the other side is to move; the new position's status
\* (st) is the engine's to compute
PosUpdate(pos, st) ==
    [turn |-> IF pos.turn = White THEN Black ELSE White,
     moveCount |-> pos.moveCount + 1,
     status |-> st]

\* Game.updatePosition: mate and stalemate set the outcome; otherwise an
\* automatic draw (repetition, 75 moves, material) may end an ongoing game
UpdatePosition(g, autoDraw) ==
    LET g1 == IF g.pos.status = "Stalemate"
                 THEN [g EXCEPT !.method = "Stalemate", !.outcome = Draw]
              ELSE IF g.pos.status = "Checkmate"
                 THEN [g EXCEPT !.method = "Checkmate",
                                !.outcome = IF g.pos.turn = White
                                            THEN BlackWon ELSE WhiteWon]
              ELSE g
    IN  IF g1.outcome # NoOutcome THEN g1
        ELSE IF autoDraw THEN [g1 EXCEPT !.outcome = Draw, !.method = "AutoDraw"]
        ELSE g1

\* Game.Move on a legal move
GameMove(g, st, autoDraw) ==
    UpdatePosition([g EXCEPT !.pos = PosUpdate(g.pos, st)], autoDraw)

(***************************************************************************)
(* bubbles/textinput: value, cursor position, CharLimit.                   *)
(***************************************************************************)
CharLimit == 4

\* textinput.New() with CharLimit = 4, focused
NewTextInput == [value |-> <<>>, pos |-> 0]

\* Model.Reset
TextInputReset(ti) == [value |-> <<>>, pos |-> 0]

\* insertRunesFromUserInput with the paste not cut down to the space left
InsertRunesUncut(ti, runes) ==
    IF CharLimit - Len(ti.value) <= 0 THEN ti
    ELSE [value |-> SubSeq(ti.value, 1, ti.pos) \o runes
                    \o SubSeq(ti.value, ti.pos + 1, Len(ti.value)),
          pos |-> ti.pos + Len(runes)]

\* insertRunesFromUserInput: the runes go in at the cursor, cut down to the
\* space CharLimit leaves
InsertRunes(ti, runes) ==
    LET availSpace == CharLimit - Len(ti.value)
        paste == IF availSpace < Len(runes)
                 THEN SubSeq(runes, 1, Max(availSpace, 0)) ELSE runes
    IN  IF availSpace <= 0 THEN ti
        ELSE [value |-> SubSeq(ti.value, 1, ti.pos) \o paste
                        \o SubSeq(ti.value, ti.pos + 1, Len(ti.value)),
              pos |-> ti.pos + Len(paste)]

\* deleteCharacterBackward taking the rune under the cursor instead
DeleteCharacterAtCursor(ti) ==
    IF Len(ti.value) > 0
    THEN [value |-> SubSeq(ti.value, 1, ti.pos)
                    \o SubSeq(ti.value, ti.pos + 2, Len(ti.value)),
          pos |-> ti.pos]
    ELSE ti

\* deleteCharacterBackward: the rune before the cursor goes
DeleteCharacterBackward(ti) ==
    IF Len(ti.value) > 0
    THEN [value |-> SubSeq(ti.value, 1, Max(0, ti.pos - 1))
                    \o SubSeq(ti.value, ti.pos + 1, Len(ti.value)),
          pos |-> IF ti.pos > 0 THEN ti.pos - 1 ELSE ti.pos]
    ELSE ti

\* characterBackward / characterForward: the cursor moves, clamped
CursorLeft(ti) == [ti EXCEPT !.pos = Max(0, ti.pos - 1)]
CursorRight(ti) == [ti EXCEPT !.pos = Min(Len(ti.value), ti.pos + 1)]

(***************************************************************************)
(* bubbles/viewport: Width, Height, YOffset and the content's lines.       *)
(***************************************************************************)
NL == "\n"

\* strings.Split(s, "\n")
RECURSIVE SplitFrom(_, _, _)
SplitFrom(s, i, cur) ==
    IF i > Len(s) THEN <<cur>>
    ELSE IF s[i] = NL THEN <<cur>> \o SplitFrom(s, i + 1, <<>>)
    ELSE SplitFrom(s, i + 1, Append(cur, s[i]))
Split(s) == SplitFrom(s, 1, <<>>)

MaxYOffset(vp) == Max(0, Len(vp.lines) - vp.Height)
SetYOffset(vp, n) == [vp EXCEPT !.YOffset = Max(0, Min(n, MaxYOffset(vp)))]
GotoBottom(vp) == SetYOffset(vp, MaxYOffset(vp))
AtTop(vp) == vp.YOffset <= 0
AtBottom(vp) == vp.YOffset >= MaxYOffset(vp)

\* viewport.SetContent
SetContent(vp, s) ==
    LET v == [vp EXCEPT !.lines = Split(s)]
    IN  IF v.YOffset > Len(v.lines) - 1 THEN GotoBottom(v) ELSE v

LineDown(vp, n) ==
    IF AtBottom(vp) \/ n = 0 \/ Len(vp.lines) = 0 THEN vp
    ELSE SetYOffset(vp, vp.YOffset + n)
LineUp(vp, n) ==
    IF AtTop(vp) \/ n = 0 THEN vp ELSE SetYOffset(vp, vp.YOffset - n)

\* viewport.Update on the four keys Update forwards
ViewportKey(vp, key) ==
    CASE key = "KeyUp" -> LineUp(vp, 1)
      [] key = "KeyDown" -> LineDown(vp, 1)
      [] key = "KeyPgUp" -> LineUp(vp, vp.Height)
      [] key = "KeyPgDown" -> LineDown(vp, vp.Height)

ScrollKeys == {"KeyUp", "KeyDown", "KeyPgUp", "KeyPgDown"}

GameHistoryHeader ==
    <<"G", "a", "m", "e", " ", "H", "i", "s", "t", "o", "r", "y", ":">>

\* viewport.New(0, 0) followed by SetContent("Game History:\n")
NewViewport ==
    SetContent([Width |-> 0, Height |-> 0, YOffset |-> 0, lines |-> <<>>],
               GameHistoryHeader \o <<NL>>)

(***************************************************************************)
(* model.updateHistoryViewport                                             *)
(***************************************************************************)
Digit == <<"0", "1", "2", "3", "4", "5", "6", "7", "8", "9">>

\* fmt's %d of a non-negative int
RECURSIVE Itoa(_)
Itoa(n) ==
    IF n < 10 THEN <<Digit[n + 1]>>
    ELSE Itoa(n \div 10) \o <<Digit[(n % 10) + 1]>>

\* the turn number printed from pos, not pos+1
TurnNumberZeroBased(pos) == Itoa(pos) \o <<".">>

\* fmt.Sprintf("%d.", pos+1)
TurnNumber(pos) == Itoa(pos + 1) \o <<".">>

\* the range loop over m.history, from index i (0-based) on: fh is
\* formattedHistory, a slice of len(m.history)/2+1 strings
RECURSIVE FormatLoop(_, _, _)
FormatLoop(h, i, fh) ==
    IF i >= Len(h) THEN fh
    ELSE LET pos == i \div 2
             numbered == IF i % 2 = 0
                         THEN [fh EXCEPT ![pos + 1] = TurnNumber(pos)]
                         ELSE fh
         IN  FormatLoop(h, i + 1,
                 [numbered EXCEPT ![pos + 1] = @ \o <<" ">> \o h[i + 1]])

FormattedHistory(h) ==
    FormatLoop(h, 0, [k \in 1..(Len(h) \div 2 + 1) |-> <<>>])

\* every line of formattedHistory followed by a newline
RECURSIVE WriteLines(_, _)
WriteLines(ls, k) ==
    IF k > Len(ls) THEN <<>> ELSE ls[k] \o <<NL>> \o WriteLines(ls, k + 1)

HistoryContent(h) ==
    GameHistoryHeader \o <<NL, NL>> \o WriteLines(FormattedHistory(h), 1)

\* m.updateHistoryViewport(): m is the model struct as a record
updateHistoryViewport(m) ==
    [m EXCEPT !.viewport = SetContent(m.viewport, HistoryContent(m.history))]

(***************************************************************************)
(* model.Update, one operator per message kind.  The model struct is the   *)
(* record M of the variables.                                              *)
(***************************************************************************)
M == [game |-> game, error |-> error, width |-> width, height |-> height,
      textInput |-> textInput, viewport |-> viewport, history |-> history]

\* initialModel()
initialModel ==
    [game |-> NewGame, error |-> Nil, width |-> 0, height |-> 0,
     textInput |-> NewTextInput, viewport |-> NewViewport, history |-> <<>>]

historyDesiredWidth == 20
bottomSectionMinHeight == 6
\* lipgloss.Height of the one-line title
topSectionHeight == 1
\* docStyle: Margin(1, 2)
docVerticalFrameSize == 2
\* historyStyle: rounded border and Padding(0, 1)
historyHorizontalFrameSize == 4
historyVerticalFrameSize == 2

\* case tea.WindowSizeMsg without the two clamps to 0
UpdateWindowSizeUnclamped(m, w, h) ==
    LET availableHeight == h - topSectionHeight - bottomSectionMinHeight
                             - docVerticalFrameSize
    IN  updateHistoryViewport(
            [m EXCEPT !.width = w, !.height = h,
                      !.viewport.Width =
                          historyDesiredWidth - historyHorizontalFrameSize,
                      !.viewport.Height =
                          availableHeight - historyVerticalFrameSize])

\* case tea.WindowSizeMsg
UpdateWindowSize(m, w, h) ==
    LET availableHeight == h - topSectionHeight - bottomSectionMinHeight
                             - docVerticalFrameSize
        vw == historyDesiredWidth - historyHorizontalFrameSize
        vh == availableHeight - historyVerticalFrameSize
        sized == [m EXCEPT !.width = w, !.height = h,
                           !.viewport.Width = IF vw < 0 THEN 0 ELSE vw,
                           !.viewport.Height = IF vh < 0 THEN 0 ELSE vh]
    IN  updateHistoryViewport(sized)

\* the accepted branch of case tea.KeyEnter
EnterAcceptedBranch(m, st, autoDraw) ==
    LET moved == [m EXCEPT !.game = GameMove(m.game, st, autoDraw),
                           !.error = Nil,
                           !.textInput = TextInputReset(m.textInput),
                           !.history = Append(m.history, m.textInput.value)]
        shown == updateHistoryViewport(moved)
    IN  [shown EXCEPT !.viewport = GotoBottom(shown.viewport)]

\* KeyEnter that does not record the engine's error
UpdateEnterErrorDropped(m, st, autoDraw) ==
    IF MoveStrErr(m.game, m.textInput.value) # Nil THEN m
    ELSE EnterAcceptedBranch(m, st, autoDraw)

\* KeyEnter that resets the text input whatever the engine answers
UpdateEnterResetAlways(m, st, autoDraw) ==
    LET err == MoveStrErr(m.game, m.textInput.value)
    IN  IF err # Nil
        THEN [m EXCEPT !.error = err, !.textInput = TextInputReset(m.textInput)]
        ELSE EnterAcceptedBranch(m, st, autoDraw)

\* KeyEnter that records the submitted string whatever the engine answers
UpdateEnterAppendAlways(m, st, autoDraw) ==
    LET err == MoveStrErr(m.game, m.textInput.value)
    IN  IF err # Nil
        THEN [m EXCEPT !.error = err,
                       !.history = Append(m.history, m.textInput.value)]
        ELSE EnterAcceptedBranch(m, st, autoDraw)

\* KeyEnter that leaves the accepted string in the text input
UpdateEnterNoReset(m, st, autoDraw) ==
    LET err == MoveStrErr(m.game, m.textInput.value)
    IN  IF err # Nil THEN [m EXCEPT !.error = err]
        ELSE [EnterAcceptedBranch(m, st, autoDraw) EXCEPT !.textInput = m.textInput]

\* KeyEnter that leaves an earlier error standing after an accepted move
UpdateEnterKeepsError(m, st, autoDraw) ==
    LET err == MoveStrErr(m.game, m.textInput.value)
    IN  IF err # Nil THEN [m EXCEPT !.error = err]
        ELSE [EnterAcceptedBranch(m, st, autoDraw) EXCEPT !.error = m.error]

\* case tea.KeyEnter; st and autoDraw are what the rules engine finds of the
\* position the move leads to
UpdateEnter(m, st, autoDraw) ==
    LET moveStr == m.textInput.value
        err == MoveStrErr(m.game, moveStr)
    IN  IF err # Nil
        THEN [m EXCEPT !.error = err]
        ELSE EnterAcceptedBranch(m, st, autoDraw)

\* case tea.KeyUp, tea.KeyDown, tea.KeyPgUp, tea.KeyPgDown, then the text
\* input's Update, which does not edit on these keys
UpdateScroll(m, key) ==
    [m EXCEPT !.viewport = ViewportKey(m.viewport, key)]

\* the rune keys with the text input's limit not applied
UpdateRunesUncut(m, runes) ==
    [m EXCEPT !.textInput = InsertRunesUncut(m.textInput, runes)]

\* Backspace taking the rune under the cursor
UpdateBackspaceAtCursor(m) ==
    [m EXCEPT !.textInput = DeleteCharacterAtCursor(m.textInput)]

\* the rune keys clearing the error as the user types
UpdateRunesClearError(m, runes) ==
    [m EXCEPT !.textInput = InsertRunes(m.textInput, runes), !.error = Nil]

\* the other keys fall through to m.textInput.Update(msg)
UpdateRunes(m, runes) == [m EXCEPT !.textInput = InsertRunes(m.textInput, runes)]
UpdateBackspace(m) ==
    [m EXCEPT !.textInput = DeleteCharacterBackward(m.textInput)]
UpdateLeft(m) == [m EXCEPT !.textInput = CursorLeft(m.textInput)]
UpdateRight(m) == [m EXCEPT !.textInput = CursorRight(m.textInput)]

\* case tea.KeyCtrlC, tea.KeyEsc: the model is returned as it is, with tea.Quit
UpdateQuit(m) == m

(***************************************************************************)
(* The program: bubbletea hands Update one message at a time.  last notes  *)
(* the kind of the message handled last, and for Enter what the rules      *)
(* engine answered; accepted counts the moves the engine accepted.         *)
(***************************************************************************)
Statuses == {"NoMethod", "Checkmate", "Stalemate"}
Runes == SeqsUpTo(Chars, MaxRunes) \ {<<>>}

\* the initial position's board is not looked at by Update
EmptyBoard == [sq \in 0..63 |-> "NoPiece"]

Store(m) ==
    /\ game' = m.game
    /\ error' = m.error
    /\ width' = m.width
    /\ height' = m.height
    /\ textInput' = m.textInput
    /\ viewport' = m.viewport
    /\ history' = m.history

Init ==
    /\ game = initialModel.game
    /\ error = initialModel.error
    /\ width = initialModel.width
    /\ height = initialModel.height
    /\ textInput = initialModel.textInput
    /\ viewport = initialModel.viewport
    /\ history = initialModel.history
    /\ running = TRUE
    /\ accepted = 0
    /\ last = "none"
    /\ board = EmptyBoard
    /\ frame = <<>>
    /\ stdin = <<>>
    /\ pc = "Update"
    /\ out = <<>>

WindowSizeMsg ==
    /\ running
    /\ \E w \in Widths, h \in Heights : Store(UpdateWindowSize(M, w, h))
    /\ last' = "WindowSizeMsg"
    /\ UNCHANGED <<running, accepted, board, frame, stdin, pc, out>>

KeyEnter ==
    /\ running
    /\ \E st \in Statuses, autoDraw \in BOOLEAN :
         LET new == UpdateEnter(M, st, autoDraw)
         IN  /\ Len(new.history) <= MaxMoves
             /\ new.game.pos.moveCount <= MaxMoves
             /\ Store(new)
    /\ accepted' = IF MoveStrErr(game, textInput.value) = Nil
                   THEN accepted + 1 ELSE accepted
    /\ last' = IF MoveStrErr(game, textInput.value) = Nil
               THEN "KeyEnter accepted" ELSE "KeyEnter rejected"
    /\ UNCHANGED <<running, board, frame, stdin, pc, out>>

KeyScroll ==
    /\ running
    /\ \E key \in ScrollKeys :
         /\ Store(UpdateScroll(M, key))
         /\ last' = "other"
    /\ UNCHANGED <<running, accepted, board, frame, stdin, pc, out>>

KeyRunes ==
    /\ running
    /\ \E runes \in Runes : Store(UpdateRunes(M, runes))
    /\ last' = "other"
    /\ UNCHANGED <<running, accepted, board, frame, stdin, pc, out>>

KeyBackspace ==
    /\ running
    /\ Store(UpdateBackspace(M))
    /\ last' = "KeyBackspace"
    /\ UNCHANGED <<running, accepted, board, frame, stdin, pc, out>>

KeyLeft ==
    /\ running
    /\ Store(UpdateLeft(M))
    /\ last' = "other"
    /\ UNCHANGED <<running, accepted, board, frame, stdin, pc, out>>

KeyRight ==
    /\ running
    /\ Store(UpdateRight(M))
    /\ last' = "other"
    /\ UNCHANGED <<running, accepted, board, frame, stdin, pc, out>>

\* the rune 'n', which View offers once the game is over: a rune like the
\* others, handed to the text input
KeyN ==
    /\ running
    /\ Store(UpdateRunes(M, <<"n">>))
    /\ last' = "KeyN"
    /\ UNCHANGED <<running, accepted, board, frame, stdin, pc, out>>

KeyQuit ==
    /\ running
    /\ Store(UpdateQuit(M))
    /\ running' = FALSE
    /\ last' = "other"
    /\ UNCHANGED <<accepted, board, frame, stdin, pc, out>>

Next ==
    \/ WindowSizeMsg
    \/ KeyEnter
    \/ KeyScroll
    \/ KeyRunes
    \/ KeyBackspace
    \/ KeyLeft
    \/ KeyRight
    \/ KeyQuit

Spec == Init /\ [][Next]_vars

(***************************************************************************)
(* The program from the moment a game has just ended: a resize, the first  *)
(* move typed and accepted, and the engine reporting the game over.  From  *)
(* there the keyboard also delivers 'n'.                                   *)
(***************************************************************************)
InitGameOver ==
    /\ \E w \in Widths, h \in Heights, st \in Statuses, autoDraw \in BOOLEAN :
         LET typed == UpdateRunes(UpdateWindowSize(initialModel, w, h),
                                  <<"e", "4">>)
             over == UpdateEnter(typed, st, autoDraw)
         IN  /\ over.game.outcome # NoOutcome
             /\ game = over.game
             /\ error = over.error
             /\ width = over.width
             /\ height = over.height
             /\ textInput = over.textInput
             /\ viewport = over.viewport
             /\ history = over.history
    /\ running = TRUE
    /\ accepted = 1
    /\ last = "KeyEnter accepted"
    /\ board = EmptyBoard
    /\ frame = <<>>
    /\ stdin = <<>>
    /\ pc = "Update"
    /\ out = <<>>

NextGameOver ==
    \/ WindowSizeMsg
    \/ KeyEnter
    \/ KeyScroll
    \/ KeyRunes
    \/ KeyBackspace
    \/ KeyLeft
    \/ KeyRight
    \/ KeyN
    \/ KeyQuit

SpecGameOver == InitGameOver /\ [][NextGameOver]_vars

(***************************************************************************)
(* updateHistoryViewport on its own: any history of up to MaxHist moves,   *)
(* formatted into a fresh viewport.                                        *)
(***************************************************************************)
HistMoves == {<<"e", "4">>, <<"e", "5">>, <<"N", "f", "3">>}

InitHistory ==
    /\ game = initialModel.game
    /\ error = initialModel.error
    /\ width = initialModel.width
    /\ height = initialModel.height
    /\ textInput = initialModel.textInput
    /\ viewport = initialModel.viewport
    /\ history \in SeqsUpTo(HistMoves, MaxHist)
    /\ running = TRUE
    /\ accepted = Len(history)
    /\ last = "none"
    /\ board = EmptyBoard
    /\ frame = <<>>
    /\ stdin = <<>>
    /\ pc = "Update"
    /\ out = <<>>

FormatHistory ==
    /\ last = "none"
    /\ Store(updateHistoryViewport(M))
    /\ last' = "updateHistoryViewport"
    /\ UNCHANGED <<running, accepted, board, frame, stdin, pc, out>>

NextHistory == FormatHistory

SpecHistory == InitHistory /\ [][NextHistory]_vars

(***************************************************************************)
(* renderBoard.  The rendered text is a sequence of one-column cells: the  *)
(* character, the background the square style gives it and the foreground *)
(* the piece style gives it ("" where no style applies).                   *)
(***************************************************************************)
NoPiece == "NoPiece"
WhitePieces == {"WhiteKing", "WhiteQueen", "WhiteRook", "WhiteBishop",
                "WhiteKnight", "WhitePawn"}
BlackPieces == {"BlackKing", "BlackQueen", "BlackRook", "BlackBishop",
                "BlackKnight", "BlackPawn"}

\* Piece.Color
PieceColor(piece) ==
    IF piece \in WhitePieces THEN White
    ELSE IF piece \in BlackPieces THEN Black ELSE "NoColor"

\* pieceNotation
pieceNotation(piece) ==
    CASE piece \in {"WhiteKing", "BlackKing"} -> "K"
      [] piece \in {"WhiteQueen", "BlackQueen"} -> "Q"
      [] piece \in {"WhiteRook", "BlackRook"} -> "R"
      [] piece \in {"WhiteBishop", "BlackBishop"} -> "B"
      [] piece \in {"WhiteKnight", "BlackKnight"} -> "N"
      [] piece \in {"WhitePawn", "BlackPawn"} -> "P"

Plain(ch) == [ch |-> ch, bg |-> "", fg |-> ""]
NLCell == Plain(NL)

\* the columns lightSquare and darkSquare are set to: Width(3)
squareWidth == 3

\* squareStyle.Render of one-column content: centred in Width(3), the
\* padding carrying the square's background
RenderSquare(bg, cell) ==
    LET short == squareWidth - 1
        left == short \div 2
        right == left + (short % 2)
    IN  [i \in 1..left |-> [ch |-> " ", bg |-> bg, fg |-> ""]]
        \o <<[cell EXCEPT !.bg = bg]>>
        \o [i \in 1..right |-> [ch |-> " ", bg |-> bg, fg |-> ""]]

\* pieceStyle.Render(notation)
RenderPiece(fg, notation) == [ch |-> notation, bg |-> "", fg |-> fg]

\* "   a  b  c  d  e  f  g  h  "
filesLine ==
    [i \in 1..27 |->
       Plain(CASE i = 4 -> "a" [] i = 7 -> "b" [] i = 10 -> "c" [] i = 13 -> "d"
               [] i = 16 -> "e" [] i = 19 -> "f" [] i = 22 -> "g" [] i = 25 -> "h"
               [] OTHER -> " ")]

PlainText(str) == [i \in 1..Len(str) |-> Plain(str[i])]

\* the file loop's body with the two square styles swapped
RenderSquareAtLightFirst(b, file, rank) ==
    LET piece == b[file + rank * 8]
        squareStyle == IF (file + rank) % 2 = 0 THEN "lightSquare" ELSE "darkSquare"
        pieceStyle == IF piece # NoPiece /\ PieceColor(piece) = White
                      THEN "whitePiece" ELSE "blackPiece"
    IN  IF piece = NoPiece
        THEN RenderSquare(squareStyle, Plain(" "))
        ELSE RenderSquare(squareStyle, RenderPiece(pieceStyle, pieceNotation(piece)))

\* the body of the file loop: one square of the board
RenderSquareAt(b, file, rank) ==
    LET piece == b[file + rank * 8]
        squareStyle == IF (file + rank) % 2 = 0 THEN "darkSquare" ELSE "lightSquare"
        pieceStyle == IF piece # NoPiece /\ PieceColor(piece) = White
                      THEN "whitePiece" ELSE "blackPiece"
    IN  IF piece = NoPiece
        THEN RenderSquare(squareStyle, Plain(" "))
        ELSE RenderSquare(squareStyle, RenderPiece(pieceStyle, pieceNotation(piece)))

RECURSIVE RenderFiles(_, _, _)
RenderFiles(b, file, rank) ==
    IF file > 7 THEN <<>>
    ELSE RenderSquareAt(b, file, rank) \o RenderFiles(b, file + 1, rank)

\* the rank loop, from rank down to 0
RECURSIVE RenderRanks(_, _)
RenderRanks(b, rank) ==
    IF rank < 0 THEN <<>>
    ELSE PlainText(Itoa(rank + 1) \o <<" ">>)
         \o RenderFiles(b, 0, rank)
         \o PlainText(<<" ">> \o Itoa(rank + 1))
         \o <<NLCell>>
         \o RenderRanks(b, rank - 1)

renderBoard(b) ==
    filesLine \o <<NLCell>> \o RenderRanks(b, 7) \o filesLine

\* the lines of a rendered text: what lies between its newlines
CellLines(s) ==
    LET nl == {i \in 1..Len(s) : s[i].ch = NL}
        Nth(k) == CHOOSE i \in nl : Cardinality({j \in nl : j < i}) = k - 1
        n == Cardinality(nl)
    IN  [k \in 1..(n + 1) |->
           SubSeq(s, IF k = 1 THEN 1 ELSE Nth(k - 1) + 1,
                     IF k = n + 1 THEN Len(s) ELSE Nth(k) - 1)]

\* positions handed to renderBoard: the empty board and every board with
\* one piece on it
Boards ==
    {[EmptyBoard EXCEPT ![sq] = piece] :
        sq \in 0..63, piece \in {NoPiece, "WhiteKing", "BlackQueen"}}

InitBoard ==
    /\ game = initialModel.game
    /\ error = initialModel.error
    /\ width = initialModel.width
    /\ height = initialModel.height
    /\ textInput = initialModel.textInput
    /\ viewport = initialModel.viewport
    /\ history = initialModel.history
    /\ running = TRUE
    /\ accepted = 0
    /\ last = "none"
    /\ board \in Boards
    /\ frame = <<>>
    /\ stdin = <<>>
    /\ pc = "Update"
    /\ out = <<>>

RenderBoard ==
    /\ last = "none"
    /\ frame' = renderBoard(board)
    /\ last' = "renderBoard"
    /\ UNCHANGED <<game, error, width, height, textInput, viewport, history,
                   running, accepted, board, stdin, pc, out>>

NextBoard == RenderBoard

SpecBoard == InitBoard /\ [][NextBoard]_vars

(***************************************************************************)
(* Claims about model.Update                                               *)
(***************************************************************************)
EnterRejected == last' = "KeyEnter rejected"
EnterAccepted == last' = "KeyEnter accepted"

\* C1: an Enter whose buffer the rules engine rejects leaves the game
\* position unchanged and leaves the error set to a non-empty message.
C1_RejectedEnterKeepsPositionSetsError ==
    [][EnterRejected =>
         /\ game' = game
         /\ error' # Nil
         /\ error'[1] # ""]_vars

C1_Witness ==
    /\ last = "KeyEnter rejected"
    /\ game.pos.moveCount > 0
    /\ error # Nil

\* C2: an Enter whose buffer the rules engine accepts ends with the buffer
\* empty, the error nil and the history grown by exactly the submitted
\* string.
C2_AcceptedEnterClearsAndAppends ==
    [][EnterAccepted =>
         /\ textInput'.value = <<>>
         /\ error' = Nil
         /\ history' = Append(history, textInput.value)]_vars

C2_Witness ==
    /\ last = "KeyEnter accepted"
    /\ Len(history) = 2
    /\ textInput.value = <<>>
    /\ error = Nil

\* C3: once the outcome is not ongoing, every later Enter leaves the
\* position and the history unchanged.
C3_NoMovesAfterGameOver ==
    [][(game.outcome # NoOutcome /\ (EnterAccepted \/ EnterRejected)) =>
         /\ game'.pos = game.pos
         /\ history' = history]_vars

\* C6: the input buffer is never longer than the character limit.
C6_BufferWithinCharLimit == Len(textInput.value) <= CharLimit

C6_Witness ==
    /\ Len(textInput.value) = CharLimit
    /\ last = "other"

\* C7: the history is as long as the number of submissions the rules engine
\* accepted.
C7_HistoryCountsAcceptedMoves == Len(history) = accepted

C7_Witness ==
    /\ last = "KeyEnter rejected"
    /\ accepted = 2
    /\ Len(history) = 2

\* C8: an Enter the rules engine rejects keeps the input buffer as it was
\* and the history unchanged.
C8_RejectedEnterKeepsBufferAndHistory ==
    [][EnterRejected =>
         /\ textInput'.value = textInput.value
         /\ history' = history]_vars

C8_Witness ==
    /\ last = "KeyEnter rejected"
    /\ Len(textInput.value) = 2
    /\ Len(history) = 1

BackspaceStep == last' = "KeyBackspace"

\* C9, as the spec states it: Backspace on an empty buffer changes nothing;
\* on a non-empty buffer it removes exactly the last character.
C9_BackspaceRemovesLastCharacter ==
    [][BackspaceStep =>
         /\ UNCHANGED <<game, history, error>>
         /\ IF textInput.value = <<>>
            THEN textInput'.value = <<>>
            ELSE textInput'.value =
                   SubSeq(textInput.value, 1, Len(textInput.value) - 1)]_vars

\* C9, amended: Backspace changes neither position, history nor error; on
\* an empty buffer, or with the cursor at the start, the buffer stays as it
\* is; otherwise exactly the character before the cursor goes, which is the
\* last character when the cursor is at the end.
C9_BackspaceRemovesCharBeforeCursor ==
    [][BackspaceStep =>
         LET v == textInput.value
             w == textInput'.value
             c == textInput.pos
         IN  /\ UNCHANGED <<game, history, error>>
             /\ IF v = <<>> \/ c = 0
                THEN w = v
                ELSE /\ Len(w) = Len(v) - 1
                     /\ \A i \in 1..Len(w) :
                          w[i] = IF i < c THEN v[i] ELSE v[i + 1]
                     /\ textInput'.pos = c - 1]_vars

C9_Witness ==
    /\ last = "KeyBackspace"
    /\ Len(textInput.value) = 2
    /\ textInput.pos = 1

\* C10: in a game-over state the key 'n' leads to a fresh game.
C10_KeyNStartsNewGame ==
    [][(game.outcome # NoOutcome /\ last' = "KeyN") => game' = NewGame]_vars

(***************************************************************************)
(* Claims about updateHistoryViewport and renderBoard                      *)
(***************************************************************************)
\* turn line k of a history: "k.", then " m" for its first move and, when
\* there is one, for its second
TurnLine(h, k) ==
    Itoa(k) \o <<".">> \o <<" ">> \o h[2 * k - 1]
    \o (IF 2 * k <= Len(h) THEN <<" ">> \o h[2 * k] ELSE <<>>)

\* C4: the n moves of a history are formatted into the turn lines
\* 1..ceil(n/2), line k being "k. m_(2k-2)[ m_(2k-1)]", in increasing k, one
\* after the other; [e4, e5, Nf3] gives "1. e4 e5" and "2. Nf3".
C4_HistoryFormattedInTurnLines ==
    last = "updateHistoryViewport" =>
      LET turns == (Len(history) + 1) \div 2
      IN  /\ Len(viewport.lines) >= 2 + turns
          /\ viewport.lines[1] = GameHistoryHeader
          /\ \A k \in 1..turns : viewport.lines[2 + k] = TurnLine(history, k)
          /\ history = <<<<"e", "4">>, <<"e", "5">>, <<"N", "f", "3">>>> =>
               /\ viewport.lines[3] = <<"1", ".", " ", "e", "4", " ", "e", "5">>
               /\ viewport.lines[4] = <<"2", ".", " ", "N", "f", "3">>

C4_Witness ==
    /\ last = "updateHistoryViewport"
    /\ history = <<<<"e", "4">>, <<"e", "5">>, <<"N", "f", "3">>>>
    /\ Len(viewport.lines) >= 4

\* C5: renderBoard returns exactly 10 lines, all of the same display width.
C5_BoardTenLinesOfEqualWidth ==
    last = "renderBoard" =>
      LET ls == CellLines(frame)
      IN  /\ Len(ls) = 10
          /\ \A i, j \in 1..Len(ls) : Len(ls[i]) = Len(ls[j])

(***************************************************************************)
(* Claims about the history viewport                                       *)
(***************************************************************************)
\* the line of the viewport's content (1-based) that holds the newest move
NewestTurnLine == 2 + (Len(history) + 1) \div 2

\* C11: after an accepted submission, with a viewport height of at least 1,
\* the turn line holding the just-accepted move lies inside the visible
\* window, from the top offset to top offset + height - 1.
C11_NewestMoveVisibleAfterAccept ==
    (last = "KeyEnter accepted" /\ viewport.Height >= 1) =>
      /\ viewport.lines[NewestTurnLine]
           = TurnLine(history, (Len(history) + 1) \div 2)
      /\ viewport.YOffset + 1 <= NewestTurnLine
      /\ NewestTurnLine <= viewport.YOffset + viewport.Height

\* C12: for a history of n >= 1 moves the slice of turn lines has exactly
\* ceil(n/2) entries, none of them empty.
C12_TurnLinesExactAndNonEmpty ==
    (last = "updateHistoryViewport" /\ Len(history) >= 1) =>
      LET fh == FormattedHistory(history)
      IN  /\ Len(fh) = (Len(history) + 1) \div 2
          /\ \A k \in 1..Len(fh) : fh[k] # <<>>
          /\ viewport.lines
               = <<GameHistoryHeader, <<>>>> \o fh \o <<<<>>>>

\* C13: whatever sizes the resizes report, the history viewport's width and
\* height are never negative.
C13_ViewportDimensionsNonNegative ==
    /\ viewport.Width >= 0
    /\ viewport.Height >= 0

C13_Witness ==
    /\ height < 0
    /\ viewport.Height = 0
    /\ viewport.Width > 0

\* C16: the side to move is White exactly when the history has an even
\* number of entries, Black exactly when it has an odd number.
C16_TurnAgreesWithHistoryParity ==
    /\ (game.pos.turn = White) <=> (Len(history) % 2 = 0)
    /\ (game.pos.turn = Black) <=> (Len(history) % 2 = 1)

C16_Witness ==
    /\ Len(history) = 3
    /\ game.pos.turn = Black
    /\ last = "KeyEnter accepted"

(***************************************************************************)
(* Frame and error claims about model.Update                               *)
(***************************************************************************)
EnterStep == EnterAccepted \/ EnterRejected

\* C14: only an Enter can change the position, the history or the error;
\* every other event leaves the three unchanged, and a resize leaves the
\* input buffer unchanged too.
C14_OnlyEnterChangesGameHistoryError ==
    [][/\ ~EnterStep => UNCHANGED <<game, history, error>>
       /\ last' = "WindowSizeMsg" => textInput' = textInput]_vars

C14_Witness ==
    /\ last = "WindowSizeMsg"
    /\ error # Nil
    /\ Len(history) >= 1
    /\ Len(textInput.value) >= 1

\* C15: the error is non-nil exactly when there has been an Enter and the
\* most recent Enter was rejected: nil at the start, set by a rejected
\* Enter, cleared by an accepted one, and left as it is by everything else.
C15_ErrorTracksLastEnter ==
    /\ error = Nil
    /\ [][/\ EnterRejected => error' # Nil
          /\ EnterAccepted => error' = Nil
          /\ ~EnterStep => error' = error]_vars

C15_Witness ==
    /\ last = "KeyEnter accepted"
    /\ accepted >= 2
    /\ error = Nil

(***************************************************************************)
(* Claims about renderBoard's colouring                                    *)
(***************************************************************************)
\* the three cells a rendered frame shows for the square (file, rank): rank
\* 7 is the second line, and two label columns precede the squares
SquareCells(ls, file, rank) ==
    SubSeq(ls[9 - rank], 3 + 3 * file, 5 + 3 * file)

\* C17: the square at (file, rank), a1 = (0, 0), is dark exactly when
\* file + rank is even and light otherwise, so neighbours along a rank or a
\* file differ; a piece is drawn in the white-piece style exactly when the
\* square holds a White piece, in the black-piece style when it holds a
\* Black one.
C17_SquareAndPieceColours ==
    last = "renderBoard" =>
      LET ls == CellLines(frame)
          Bg(file, rank) == SquareCells(ls, file, rank)[2].bg
      IN  \A file \in 0..7, rank \in 0..7 :
            LET cells == SquareCells(ls, file, rank)
                piece == board[file + rank * 8]
            IN  /\ \A i \in 1..3 :
                     cells[i].bg = IF (file + rank) % 2 = 0
                                   THEN "darkSquare" ELSE "lightSquare"
                /\ file < 7 => Bg(file, rank) # Bg(file + 1, rank)
                /\ rank < 7 => Bg(file, rank) # Bg(file, rank + 1)
                /\ (cells[2].fg = "whitePiece") <=> (piece \in WhitePieces)
                /\ piece \in BlackPieces => cells[2].fg = "blackPiece"
                /\ piece # NoPiece => cells[2].ch = pieceNotation(piece)

C17_Witness ==
    /\ last = "renderBoard"
    /\ board[4] = "WhiteKing"
    /\ Len(frame) > 0

(***************************************************************************)
(* The stdin variant: main's loop over the lines of standard input.  pc    *)
(* is "cond" at the loop condition, "scan" at scanner.Scan() and "done"    *)
(* after the result line; out is what has been printed.                    *)
(***************************************************************************)
Whitespace == {" ", "\t"}

\* strings.TrimSpace
RECURSIVE TrimLeft(_)
TrimLeft(str) ==
    IF str # <<>> /\ Head(str) \in Whitespace THEN TrimLeft(Tail(str)) ELSE str
RECURSIVE TrimRight(_)
TrimRight(str) ==
    IF str # <<>> /\ str[Len(str)] \in Whitespace
    THEN TrimRight(SubSeq(str, 1, Len(str) - 1)) ELSE str
TrimSpace(str) == TrimRight(TrimLeft(str))

\* the lines standard input can hold
StdinLines == {<<"e", "4">>, <<" ", "4", "e", " ">>, <<"x">>}

\* a loop condition that never ends the loop
StdinLoopCondAlways(g) == TRUE

\* for game.Outcome() == chess.NoOutcome
StdinLoopCond(g) == g.outcome = NoOutcome

\* the prompt for the side to move
StdinPromptText(g) == IF g.pos.turn = White THEN "White>" ELSE "Black>"

ResultLine == "Game over. Result:"
InvalidMoveLine == "Invalid move:"

InitStdin ==
    /\ game = NewGame
    /\ stdin \in SeqsUpTo(StdinLines, MaxLines)
    /\ pc = "cond"
    /\ out = <<>>
    /\ error = initialModel.error
    /\ width = initialModel.width
    /\ height = initialModel.height
    /\ textInput = initialModel.textInput
    /\ viewport = initialModel.viewport
    /\ history = initialModel.history
    /\ running = TRUE
    /\ accepted = 0
    /\ last = "none"
    /\ board = EmptyBoard
    /\ frame = <<>>

tuiVars == <<error, width, height, textInput, viewport, history,
             running, accepted, last, board, frame>>

\* the loop condition holds: the board and the prompt are printed
StdinPrompt ==
    /\ pc = "cond"
    /\ StdinLoopCond(game)
    /\ out' = out \o <<"board", StdinPromptText(game)>>
    /\ pc' = "scan"
    /\ UNCHANGED <<game, stdin>>
    /\ UNCHANGED tuiVars

\* the loop condition fails: the result line
StdinLoopExit ==
    /\ pc = "cond"
    /\ ~StdinLoopCond(game)
    /\ out' = Append(out, ResultLine)
    /\ pc' = "done"
    /\ UNCHANGED <<game, stdin>>
    /\ UNCHANGED tuiVars

\* scanner.Scan() finds no line: break, then the result line
StdinEOF ==
    /\ pc = "scan"
    /\ stdin = <<>>
    /\ out' = Append(out, ResultLine)
    /\ pc' = "done"
    /\ UNCHANGED <<game, stdin>>
    /\ UNCHANGED tuiVars

\* a line is read, trimmed and handed to game.MoveStr
StdinMove ==
    /\ pc = "scan"
    /\ stdin # <<>>
    /\ LET input == TrimSpace(Head(stdin))
       IN  IF MoveStrErr(game, input) # Nil
           THEN /\ game' = game
                /\ out' = Append(out, InvalidMoveLine)
           ELSE /\ \E st \in Statuses, autoDraw \in BOOLEAN :
                     game' = GameMove(game, st, autoDraw)
                /\ out' = out
    /\ stdin' = Tail(stdin)
    /\ pc' = "cond"
    /\ UNCHANGED tuiVars

NextStdin ==
    \/ StdinPrompt
    \/ StdinLoopExit
    \/ StdinEOF
    \/ StdinMove

\* the process runs on as long as it has a step to take
SpecStdin == InitStdin /\ [][NextStdin]_vars /\ WF_vars(NextStdin)

(***************************************************************************)
(* Claim about the stdin variant                                           *)
(***************************************************************************)
ResultPrinted == \E i \in 1..Len(out) : out[i] = ResultLine

\* C18: a line is read and a move applied only while the outcome is
\* ongoing; a rejected input leaves the position unchanged and the loop
\* prompts again; the loop ends, with the result line printed, exactly when
\* the outcome is no longer ongoing or standard input is exhausted, and so
\* the program terminates.
C18_StdinLoop ==
    /\ [][/\ (stdin' # stdin \/ game' # game) =>
               (game.outcome = NoOutcome /\ ~ResultPrinted)
          /\ (stdin' # stdin /\ MoveStrErr(game, TrimSpace(Head(stdin))) # Nil) =>
               (game' = game /\ pc' = "cond" /\ StdinLoopCond(game'))
          /\ (pc = "cond" /\ game.outcome = NoOutcome) =>
               (pc' = "scan" /\ out' = out \o <<"board", StdinPromptText(game)>>)
          /\ (pc' = "done" /\ pc # "done") =>
               /\ game.outcome # NoOutcome \/ stdin = <<>>
               /\ out' = Append(out, ResultLine)
          /\ (pc = "cond" /\ game.outcome # NoOutcome) => pc' = "done"
          /\ (pc = "scan" /\ stdin = <<>>) => pc' = "done"
          /\ (pc = "scan" /\ stdin # <<>>) => pc' # "done"]_vars
    /\ [](ResultPrinted <=> pc = "done")
    /\ <>(pc = "done")

C18_Witness ==
    /\ pc = "done"
    /\ game.outcome # NoOutcome
    /\ stdin # <<>>
    /\ \E i \in 1..Len(out) : out[i] = InvalidMoveLine
    /\ ResultPrinted

====
